---- MODULE Spec2Model ----
(***************************************************************************)
(* Canada income distribution calculator: the two Streamlit scripts        *)
(* src/App2.py (hand-rolled log-normal formulas) and src/app.py            *)
(* (scipy.stats.lognorm).                                                  *)
(*                                                                         *)
(* Reals are modelled in decimal fixed point: the integer v stands for the *)
(* real v / ONE.  TLC's integers are 32 bits wide, so products and         *)
(* quotients are computed in pieces that stay below 2^31.  The library     *)
(* functions the scripts call (np.log, np.exp, np.tanh, scipy's normal     *)
(* CDF) are computed by series, to a few units of the last fixed-point     *)
(* digit.  An income x is the rational [n |-> num, d |-> den].             *)
(***************************************************************************)
EXTENDS Integers, Sequences, FiniteSets

\* ------------------------------------------------------------ fixed point

\* One unit of the fixed-point representation (six decimal digits).
ONE == 1000 * 1000

\* Number of series terms kept by the library-function models.
LnTerms == 12
ExpTerms == 14
ErfTerms == 20
CfTerms == 12

Abs(a) == IF a >= 0 THEN a ELSE -a

Sgn(a) == IF a >= 0 THEN 1 ELSE -1

\* a * b for non-negative fixed-point a, b (rounded), in 3-digit limbs.
MulAbs[a \in Nat, b \in Nat] ==
    LET a1 == a \div 1000
        a0 == a % 1000
        b1 == b \div 1000
        b0 == b % 1000
    IN  a1 * b1 + ((a1 * b0 + a0 * b1 + ((a0 * b0 + 500) \div 1000) + 500) \div 1000)

\* The fixed-point product a * b.
Mul[a \in Int, b \in Int] == Sgn(a) * Sgn(b) * MulAbs[Abs(a), Abs(b)]

Pow10[k \in Nat] == IF k = 0 THEN 1 ELSE 10 * Pow10[k - 1]

\* k decimal digits of r / b (0 <= r < b), the last one rounded.
DivDigits[r \in Nat, b \in Nat, k \in Nat] ==
    IF k = 0 THEN (IF 2 * r >= b THEN 1 ELSE 0)
    ELSE ((r * 10) \div b) * Pow10[k - 1] + DivDigits[(r * 10) % b, b, k - 1]

\* The fixed-point quotient a / b of non-negative integers, b > 0.  A
\* divisor too large for the digit loop is halved together with the dividend.
DivAbs[a \in Nat, b \in Nat] ==
    IF b > 200 * ONE
    THEN ((a \div 2) \div (b \div 2)) * ONE + DivDigits[(a \div 2) % (b \div 2), b \div 2, 6]
    ELSE (a \div b) * ONE + DivDigits[a % b, b, 6]

\* The fixed-point quotient a / b (of two fixed-point values, or two integers).
Div[a \in Int, b \in Int] == Sgn(a) * Sgn(b) * DivAbs[Abs(a), Abs(b)]

Log2Floor[n \in Nat] == IF n < 2 THEN 0 ELSE 1 + Log2Floor[n \div 2]

Pow2[e \in Nat] == IF e = 0 THEN 1 ELSE 2 * Pow2[e - 1]

\* sum over j >= k of t^(2j+1) / (2j+1), with pw = t^(2k+1), t2 = t^2.
AtanhSeries[t2 \in Int, pw \in Int, k \in Nat] ==
    IF k >= LnTerms \/ pw = 0 THEN 0
    ELSE ((pw + k) \div (2 * k + 1)) + AtanhSeries[t2, Mul[pw, t2], k + 1]

\* ln m for a fixed-point m in [1, 2): 2 atanh((m - 1) / (m + 1)).
LnMantissa[m \in Nat] ==
    LET t == Div[m - ONE, m + ONE]
    IN  2 * AtanhSeries[Mul[t, t], t, 0]

\* np.log(n) for an integer n >= 1: n = m * 2^e with m in [1, 2),
\* ln n = e ln 2 + ln m, with ln 2 = 0.693147180560.
Ln[n \in Nat] ==
    LET e  == Log2Floor[n]
        sh == IF e > 20 THEN e - 20 ELSE 0
    IN  e * 693147 + ((e * 180560) \div ONE)
        + LnMantissa[DivAbs[n \div Pow2[sh], Pow2[e - sh]]]

\* sum over j >= k of (-f)^j / j!, with term = (-f)^k / k!.
ExpSeries[f \in Int, term \in Int, k \in Nat] ==
    IF k >= ExpTerms \/ term = 0 THEN 0
    ELSE term + ExpSeries[f, Mul[term, -f] \div (k + 1), k + 1]

\* acc * e^(-k), with 1/e = 0.367879.
PowEInv[k \in Nat, acc \in Int] ==
    IF k = 0 \/ acc = 0 THEN acc ELSE PowEInv[k - 1, Mul[acc, 367879]]

\* np.exp(-y) for a fixed-point y >= 0.
ExpNeg[y \in Nat] == PowEInv[y \div ONE, ExpSeries[y % ONE, ONE, 0]]

\* np.tanh(u) = sign(u) (1 - e^(-2|u|)) / (1 + e^(-2|u|)).
Tanh[u \in Int] ==
    LET E == ExpNeg[2 * Abs(u)]
    IN  Sgn(u) * Div[ONE - E, ONE + E]

\* a / 2 for a fixed-point a, symmetric about 0.
Half[a \in Int] == Sgn(a) * (Abs(a) \div 2)

\* sum over j >= k of (-1)^j t^(2j+1) / (j! (2j+1)), term = (-1)^k t^(2k+1) / k!.
ErfSeries[t2 \in Int, term \in Int, k \in Nat] ==
    IF k >= ErfTerms \/ term = 0 THEN 0
    ELSE Sgn(term) * (Abs(term) \div (2 * k + 1))
         + ErfSeries[t2, -Sgn(term) * (Mul[Abs(term), t2] \div (k + 1)), k + 1]

\* The continued fraction t + (k/2) / (t + ((k+1)/2) / (t + ...)) of erfc.
ErfcCF[t \in Int, k \in Nat] ==
    IF k > CfTerms THEN t ELSE t + Div[(k * ONE) \div 2, ErfcCF[t, k + 1]]

\* The error function: its Taylor series up to 1.5, 1 - erfc beyond, with
\* 2 / sqrt(pi) = 1.128379 and 1 / sqrt(pi) = 0.564190.
Erf[t \in Int] ==
    LET a == Abs(t)
    IN  IF 2 * a <= 3 * ONE THEN Sgn(t) * Mul[1128379, ErfSeries[Mul[a, a], a, 0]]
        ELSE IF a >= 6 * ONE THEN Sgn(t) * ONE
        ELSE Sgn(t) * (ONE - Mul[564190, Div[ExpNeg[Mul[a, a]], ErfcCF[a, 1]]])

\* a / b for b > 0 rounded to the nearest integer, ties to even (the
\* rounding of Python's format()).
RoundHalfEven[a \in Int, b \in Nat] ==
    LET q == Abs(a) \div b
        r == Abs(a) % b
        up == (2 * r > b) \/ (2 * r = b /\ q % 2 = 1)
    IN  Sgn(a) * (IF up THEN q + 1 ELSE q)

\* ------------------------------------------------- the scripts' constants

\* total_pop (App2.py) and total_population (app.py).
total_pop == 20000000

\* mu and sigma, in fixed point.
mu == 10450000
sigma == 950000

\* scale = np.exp(mu) = 34544.3747, as a rational.
scale == [n |-> 345443747, d |-> 10000]

\* np.sqrt(2), np.sqrt(2 / np.pi) and np.sqrt(2 * np.pi), in fixed point.
SQRT2 == 1414214
SQRT_2_OVER_PI == 797885
SQRT_2PI == 2506628

Scripts == {"App2", "app"}

\* The display grid np.linspace(start, GridStop, GridN).
GridN == 1000
GridStop == 300000
GridStartApp2 == 1
GridStartApp == 0

\* The sliders: slider(label, min_value, max_value, value, step).
MinSliderLo == 0
MinSliderHi == 150000
MinSliderDefault == 25000
MaxSliderHi == 300000
MaxSliderDefault == 100000
SliderStep == 5000

\* An integer income as a rational.
Income(v) == [n |-> v, d |-> 1]

\* income_range[i], i in 0 .. GridN - 1: start + i (stop - start) / (N - 1).
GridPoint(start, i) ==
    [n |-> start * (GridN - 1) + i * (GridStop - start), d |-> GridN - 1]

\* income_range of script s, as a function of the index.
income_range ==
    [s \in Scripts |->
        [i \in 0 .. GridN - 1 |->
            GridPoint(IF s = "App2" THEN GridStartApp2 ELSE GridStartApp, i)]]

\* np.log(x) for a positive rational x.
Log(x) == Ln[x.n] - Ln[x.d]

\* ------------------------------------------------------ App2.py's formulas

\* 1 / (x s sqrt(2 pi)) in units of 10^-9, for x = n / d > 0.
PdfCoefficient[n \in Nat, d \in Nat, s \in Int] ==
    Div[DivAbs[1000 * d, n], Mul[s, SQRT_2PI]]

\* exp(-(dl ^ 2) / (2 s^2)), dl = np.log(x) - np.log(scale).
PdfExponential[dl \in Int, s \in Int] ==
    ExpNeg[Div[Mul[dl, dl], 2 * Mul[s, s]]]

\* lognorm_pdf(x, s, scale), in units of 10^-9, for x > 0.
lognorm_pdf(x, s, sc) ==
    Mul[PdfCoefficient[x.n, x.d, s], PdfExponential[Log(x) - Log(sc), s]]

\* 0.5 * (1 + tanh(sqrt(2) z / 2) + sqrt(2 / pi) exp(-z^2 / 2)).
TanhFormula[z \in Int] ==
    Mul[ONE \div 2,
        ONE + Tanh[Half[Mul[SQRT2, z]]] + Mul[SQRT_2_OVER_PI, ExpNeg[Half[Mul[z, z]]]]]

\* lognorm_cdf(x, s, scale) for x >= 0.  At x = 0 np.log gives -inf, so
\* z = -inf, np.tanh gives -1 and np.exp(-inf) gives 0.
lognorm_cdf(x, s, sc) ==
    IF x.n = 0 THEN Mul[ONE \div 2, ONE + (-ONE) + Mul[SQRT_2_OVER_PI, 0]]
    ELSE TanhFormula[Div[Log(x) - Log(sc), s]]

\* ------------------------------------------------- scipy.stats.lognorm

\* The standard normal CDF, (1 + erf(z / sqrt 2)) / 2.
Ndtr[z \in Int] == (ONE + Erf[Div[z, SQRT2]]) \div 2

\* lognorm.cdf(x, s, scale=scale): 0 outside the open support (0, inf).
scipy_lognorm_cdf(x, s, sc) ==
    IF x.n <= 0 THEN 0 ELSE Ndtr[Div[Log(x) - Log(sc), s]]

\* lognorm.pdf(x, s, scale=scale), in units of 10^-9: 0 at x <= 0.
scipy_lognorm_pdf(x, s, sc) ==
    IF x.n <= 0 THEN 0 ELSE lognorm_pdf(x, s, sc)

\* The cumulative function script s uses.
cumulative(s, x) ==
    IF s = "App2" THEN lognorm_cdf(x, sigma, scale)
    ELSE scipy_lognorm_cdf(x, sigma, scale)

\* The density function script s uses.
density(s, x) ==
    IF s = "App2" THEN lognorm_pdf(x, sigma, scale)
    ELSE scipy_lognorm_pdf(x, sigma, scale)

\* ------------------------------------------------------ the range query

\* A variant of rangeProbability: the difference clamped to [0, 1].
rangeProbabilityClamped(s, low, high) ==
    IF cumulative(s, Income(high)) < cumulative(s, Income(low)) THEN 0
    ELSE IF cumulative(s, Income(high)) - cumulative(s, Income(low)) > ONE THEN ONE
    ELSE cumulative(s, Income(high)) - cumulative(s, Income(low))

\* prob (App2.py) and prob_between (app.py): cdf(max) - cdf(min), with no
\* test of the order of the bounds.
rangeProbability(s, low, high) ==
    cumulative(s, Income(high)) - cumulative(s, Income(low))

\* people = prob * total_pop (heads, resolved to total_pop / ONE = 20),
\* percent = prob * 100 (fixed point), and what is displayed: the head count formatted {:,.0f} and the
\* percentage formatted {:.1f} (in tenths of a percent).
Reported[p \in Int] ==
    [status |-> "value", prob |-> p,
     people |-> p * (total_pop \div ONE),
     percent |-> p * 100,
     people_shown |-> RoundHalfEven[p * (total_pop \div ONE), 1],
     percent_shown |-> RoundHalfEven[p * 100, ONE \div 10]]

\* One evaluated range query and its result.
Query(s, label, low, high) ==
    [label |-> label, low |-> low, high |-> high,
     result |-> Reported[rangeProbability(s, low, high)]]

\* The hard-coded example bands of each script: (label, low, high).
examples ==
    [App2 |-> << <<"Low Income", 0, 30000>>, <<"Middle Class", 40000, 100000>>,
                 <<"Upper Middle", 100000, 200000>>, <<"High Income", 200000, 300000>> >>,
     app  |-> << <<"Low Income", 0, 30000>>, <<"Middle Class", 40000, 100000>>,
                 <<"Upper Middle", 100000, 200000>>, <<"High Income", 200000, 500000>> >>]

\* One pass of the example loop: the query of band i.
ExampleQuery(s, i) == Query(s, examples[s][i][1], examples[s][i][2], examples[s][i][3])

\* The example loop over the four bands, in order.  The bands are constants,
\* so each script's four results are the same in every run.
ExampleQueries ==
    [App2 |-> <<ExampleQuery("App2", 1), ExampleQuery("App2", 2),
                ExampleQuery("App2", 3), ExampleQuery("App2", 4)>>,
     app  |-> <<ExampleQuery("app", 1), ExampleQuery("app", 2),
                ExampleQuery("app", 3), ExampleQuery("app", 4)>>]

\* The density and cumulative series over the display grid.
pdf_series == [s \in Scripts |-> [i \in 0 .. GridN - 1 |-> density(s, income_range[s][i])]]

cdf_series == [s \in Scripts |-> [i \in 0 .. GridN - 1 |-> cumulative(s, income_range[s][i])]]

\* The incomes each script passes to its density function: the grid.
density_args(s) == {income_range[s][i] : i \in 0 .. GridN - 1}

\* ------------------------------------------------------------ the sliders

\* The positions of the minimum-income slider.
MinSliderPositions ==
    {MinSliderLo + k * SliderStep : k \in 0 .. ((MinSliderHi - MinSliderLo) \div SliderStep)}

\* The lower bound of the maximum-income slider.  It is created with
\* min_value = min_income and value = MaxSliderDefault; st.slider adjusts
\* its bounds to contain the value it is given, so the bound is the smaller
\* of the two.
MaxSliderLo(mn) == IF MaxSliderDefault < mn THEN MaxSliderDefault ELSE mn

\* The positions of the maximum-income slider when the minimum is mn.
MaxSliderPositions(mn) ==
    {MaxSliderLo(mn) + k * SliderStep :
        k \in 0 .. ((MaxSliderHi - MaxSliderLo(mn)) \div SliderStep)}

\* ---------------------------------------------------------- one script run

\* What a run of script s evaluates and displays with the sliders at
\* (mn, mx).  App2.py runs to its end.  app.py displays its metrics and
\* then calls make_subplots(sizes=...), which raises TypeError (sizes is
\* no parameter of make_subplots), so its example loop is never reached.
RunQueries(s, mn, mx) ==
    IF s = "App2" THEN <<Query(s, "slider", mn, mx)>> \o ExampleQueries[s]
    ELSE <<Query(s, "slider", mn, mx)>>

RunOutcome(s) == IF s = "App2" THEN "completed" ELSE "TypeError"

VARIABLES
    script,      \* which of the two scripts the session runs
    min_income,  \* the minimum-income slider
    max_income,  \* the maximum-income slider
    outcome,     \* how the latest run ended
    queries,     \* the range queries the latest run evaluated, in order
    calc         \* the function call of CalcSpec, with its result

vars == <<script, min_income, max_income, outcome, queries, calc>>

Idle == [op |-> "idle"]

\* The first run of a session: both sliders at their defaults.
Init ==
    /\ script \in Scripts
    /\ min_income = MinSliderDefault
    /\ max_income = MaxSliderDefault
    /\ outcome = RunOutcome(script)
    /\ queries = RunQueries(script, MinSliderDefault, MaxSliderDefault)
    /\ calc = Idle

\* The user moves the minimum slider; the script reruns.  The maximum
\* slider's min_value changes with it, which makes it a new widget: it
\* starts again from its default value.
MoveMin(v) ==
    /\ v \in MinSliderPositions
    /\ v # min_income
    /\ min_income' = v
    /\ max_income' = MaxSliderDefault
    /\ outcome' = RunOutcome(script)
    /\ queries' = RunQueries(script, v, MaxSliderDefault)
    /\ UNCHANGED <<script, calc>>

\* The user moves the maximum slider; the script reruns.
MoveMax(v) ==
    /\ v \in MaxSliderPositions(min_income)
    /\ v # max_income
    /\ max_income' = v
    /\ outcome' = RunOutcome(script)
    /\ queries' = RunQueries(script, min_income, v)
    /\ UNCHANGED <<script, min_income, calc>>

Next ==
    \/ \E v \in MinSliderPositions : MoveMin(v)
    \/ \E v \in MaxSliderPositions(min_income) : MoveMax(v)

Spec == Init /\ [][Next]_vars

\* ------------------------------------------- the functions called directly

\* Results that differ by at most Tolerance units of the last fixed-point
\* digit are equal within tolerance.
Tolerance == 10

\* The incomes a slider can select: 0 .. MaxSliderHi in steps of SliderStep.
SliderIncomes ==
    {MinSliderLo + k * SliderStep : k \in 0 .. ((MaxSliderHi - MinSliderLo) \div SliderStep)}

\* x = 10 * scale * exp(5 * sigma) = 39927868.35, to the nearest unit.
TailPoint == [n |-> 39927868, d |-> 1]

\* The incomes at which a cumulative function is evaluated: the slider
\* incomes, the script's display grid, the median and the tail point.
CumulativeInputs(s) ==
    {Income(v) : v \in SliderIncomes}
        \cup {income_range[s][i] : i \in 0 .. GridN - 1}
        \cup {scale, TailPoint}

\* A call of cumulative, of the range-probability expression (on two
\* slider incomes in either order) or of the range probabilities of two
\* adjacent bands [a, b], [b, c] and their union [a, c]; it has not run yet.
Call(op, s, args) == [op |-> op, impl |-> s, args |-> args, ret |-> << >>]

\* No script has run: one function is called on its own.  The call is
\* cumulative at one of its inputs, the range-probability expression on two
\* slider incomes in either order, or the bands of slider incomes
\* a <= b <= c.
CalcInit ==
    /\ script = "none"
    /\ min_income = MinSliderDefault
    /\ max_income = MaxSliderDefault
    /\ outcome = "not run"
    /\ queries = << >>
    /\ \/ \E s \in Scripts : \E x \in CumulativeInputs(s) :
             calc = Call("cumulative", s, <<x>>)
       \/ \E s \in Scripts : \E low, high \in SliderIncomes :
             calc = Call("rangeProbability", s, <<low, high>>)
       \/ \E s \in Scripts : \E a, b, c \in SliderIncomes :
             a <= b /\ b <= c /\ calc = Call("bands", s, <<a, b, c>>)

\* cumulative(x) of script calc.impl.
CallCumulative ==
    /\ calc.op = "cumulative" /\ calc.ret = << >>
    /\ calc' = [calc EXCEPT !.ret = <<cumulative(calc.impl, calc.args[1])>>]
    /\ UNCHANGED <<script, min_income, max_income, outcome, queries>>

\* The range-probability expression of script calc.impl and what it reports.
CallRangeProbability ==
    /\ calc.op = "rangeProbability" /\ calc.ret = << >>
    /\ calc' = [calc EXCEPT
                  !.ret = <<Reported[rangeProbability(calc.impl, calc.args[1], calc.args[2])]>>]
    /\ UNCHANGED <<script, min_income, max_income, outcome, queries>>

\* rangeProbability(a, b), rangeProbability(b, c) and rangeProbability(a, c).
CallBands ==
    /\ calc.op = "bands" /\ calc.ret = << >>
    /\ calc' = [calc EXCEPT
                  !.ret = <<rangeProbability(calc.impl, calc.args[1], calc.args[2]),
                            rangeProbability(calc.impl, calc.args[2], calc.args[3]),
                            rangeProbability(calc.impl, calc.args[1], calc.args[3])>>]
    /\ UNCHANGED <<script, min_income, max_income, outcome, queries>>

CalcNext == CallCumulative \/ CallRangeProbability \/ CallBands

CalcSpec == CalcInit /\ [][CalcNext]_vars

\* ------------------------------------------------------------- the claims

InUnitInterval(p) == 0 <= p /\ p <= ONE

\* C1: every range query with low <= high that App2.py evaluates (the
\* slider query and the four example bands) yields a probability in
\* [0, 1], a displayed head count in [0, total_pop] and a displayed
\* percentage in [0, 100].
C1_RangeProbabilityInUnitInterval ==
    script = "App2" =>
        \A i \in DOMAIN queries :
            queries[i].low <= queries[i].high =>
                /\ InUnitInterval(queries[i].result.prob)
                /\ 0 <= queries[i].result.people_shown
                /\ queries[i].result.people_shown <= total_pop
                /\ 0 <= queries[i].result.percent_shown
                /\ queries[i].result.percent_shown <= 1000

\* C2: App2.py's cumulative function is non-decreasing: along the display
\* grid each value of the cumulative series is at least the one before it,
\* and a slider query with min_income < max_income has
\* cumulative(min_income) <= cumulative(max_income).
C2_CumulativeMonotone ==
    script = "App2" =>
        /\ \A i \in 0 .. GridN - 2 : cdf_series[script][i] <= cdf_series[script][i + 1]
        /\ min_income < max_income =>
              cumulative(script, Income(min_income)) <= cumulative(script, Income(max_income))

\* C3: a range query given low > high is reported as a failure: it yields
\* no probability, head count or percentage.
C3_InvertedRangeFails ==
    \A i \in DOMAIN queries :
        queries[i].low > queries[i].high => queries[i].result.status = "failed"

\* C4: after any sequence of slider movements every range query the run
\* evaluates has 0 <= low <= high, and the maximum slider never holds a
\* value below the minimum slider's.
C4_RangeQueryOrdered ==
    /\ 0 <= min_income
    /\ min_income <= max_income
    /\ \A i \in DOMAIN queries : 0 <= queries[i].low /\ queries[i].low <= queries[i].high

\* C5: App2.py's cumulative function returns exactly 0 at x = 0, never a
\* value below 0 or above 1, and more than 0.999 at the tail point
\* x = 10 * scale * exp(5 * sigma).
C5_CumulativeBoundaryValues ==
    (calc.op = "cumulative" /\ calc.impl = "App2" /\ calc.ret # << >>) =>
        /\ calc.args[1].n = 0 => calc.ret[1] = 0
        /\ InUnitInterval(calc.ret[1])
        /\ calc.args[1] = TailPoint => calc.ret[1] > 999 * (ONE \div 1000)

\* C6: scale is the median: App2.py's cumulative function returns 0.5,
\* within tolerance, at x = scale.
C6_ScaleIsMedian ==
    (calc.op = "cumulative" /\ calc.impl = "App2" /\ calc.ret # << >>
        /\ calc.args[1] = scale) =>
        Abs(calc.ret[1] - (ONE \div 2)) <= Tolerance

\* C7: each script reports the Middle Class band (40000, 100000) with a
\* probability of at least 10% and below 100%, and a head count equal to
\* that probability times total_pop, between 2,000,000 and 20,000,000.
C7_MiddleClassTensOfPercent ==
    \E i \in DOMAIN queries :
        /\ queries[i].label = "Middle Class"
        /\ queries[i].low = 40000 /\ queries[i].high = 100000
        /\ queries[i].result.prob >= ONE \div 10
        /\ queries[i].result.prob < ONE
        /\ queries[i].result.people = queries[i].result.prob * (total_pop \div ONE)
        /\ queries[i].result.people >= total_pop \div 10
        /\ queries[i].result.people <= total_pop

\* C8: range probability is additive over adjacent bands: for slider
\* incomes a <= b <= c, rangeProbability(a, b) + rangeProbability(b, c) equals
\* rangeProbability(a, c) within tolerance, for either script.
C8_RangeProbabilityAdditive ==
    (calc.op = "bands" /\ calc.ret # << >>) =>
        Abs(calc.ret[1] + calc.ret[2] - calc.ret[3]) <= Tolerance

\* C8 witness: the three range probabilities of distinct slider incomes
\* a < b < c have been computed, the first band's positive and the second
\* band's non-zero.
C8_Witness ==
    /\ calc.op = "bands" /\ calc.ret # << >>
    /\ calc.args[1] < calc.args[2] /\ calc.args[2] < calc.args[3]
    /\ calc.ret[1] > 0
    /\ calc.ret[2] # 0

\* C9: the density function is evaluated only at incomes strictly greater
\* than 0: every point of the display grid the script passes to it is
\* positive.
C9_DensityArgumentsPositive ==
    script \in Scripts => \A x \in density_args(script) : x.n > 0

\* C10: at every position of the minimum slider the maximum slider's
\* initial value MaxSliderDefault lies inside its own bounds
\* [min_income, MaxSliderHi], and the run reaches the range probability
\* and reports a head count.
C10_EveryMinPositionReports ==
    /\ min_income <= MaxSliderDefault
    /\ MaxSliderDefault <= MaxSliderHi
    /\ Len(queries) >= 1
    /\ queries[1].result.status = "value"
====
